---- MODULE Spec2Model ----
(***************************************************************************)
(* Model of the HubSpot "AI readiness auditor" backend.                    *)
(*                                                                         *)
(*   src/server.js         the current server: getValidAccessToken,        *)
(*                         /api/oauth-callback, /api/ai-readiness-audit    *)
(*   src/unnamed/part_000  the earlier server: the same token helper and   *)
(*                         a callback that also resolves the portal id     *)
(*                                                                         *)
(* Every await of the source is a suspension point, so every handler is    *)
(* cut into one action per continuation plus one action per effect at the  *)
(* remote party (the storage service, the OAuth provider, the CRM API).    *)
(* Time is counted in milliseconds, as Date.now() does.  Tokens are opaque *)
(* strings in the source and are numbered here; 0 stands for "no token".   *)
(* Storage writes are taken to be applied by the storage service: the      *)
(* source awaits them and never looks at their result.                     *)
(***************************************************************************)
EXTENDS Naturals, Integers, Sequences, FiniteSets, TLC

(* ------------------------------ bounds --------------------------------- *)

NProcs == 2
MaxTicks == 2
MaxRequests == 2

Procs == 1..NProcs
TickMs == {1000}
TTLs == {1}
NoCode == 0
Codes == {1, 2}
Variants == {"server", "legacy"}

(* ------------------------------ state ---------------------------------- *)

VARIABLES
    variant,    \* which of the two servers is deployed
    now,        \* Date.now(), in ms
    store,      \* the rows of the tokens table
    issued,     \* provider: [at, rt] the last access / refresh token numbers issued
    grants,     \* provider: <<access_token, refresh_token>>, the access token was issued
                \* for that refresh token (in exchange for it, or together with it)
    usedCodes,  \* provider: the authorization codes already exchanged
    started,    \* requests accepted so far
    pc,         \* per request slot: the continuation that runs next
    kind,       \* per request slot: "none", "token", "callback", "audit"
    code,       \* per slot: req.query.code of a callback request (0: absent)
    sel,        \* per slot: { data, error } of the storage select
    tok,        \* per slot: the locals refresh_token, access_token, expires_at
    http,       \* per slot: the response of the last fetch
    out,        \* per slot: how getValidAccessToken ended
    res,        \* per slot: the HTTP response sent to the caller
    obs,        \* per slot: calls made so far (token endpoint, storage writes, CRM)
    lastWrite,  \* the slot whose storage write was applied last (0: none)
    crm,        \* the CRM's content, as its API reports it
    probeOut,   \* audit: per probe "idle", "pending", "ok", "bad" or "throw"
    results,    \* audit: the array Promise.all resolves with
    outOfOrder, \* audit: some probe settled while an earlier-declared one was pending
    req         \* per slot: the portal id header and the type of a details request

vars == <<variant, now, store, issued, grants, usedCodes, started, pc, kind, code,
          sel, tok, http, out, res, obs, lastWrite, crm, probeOut, results,
          outOfOrder, req>>

auditVars == <<crm, probeOut, results, outOfOrder>>

detailVars == <<req>>

(* --------------------------- the tokens table --------------------------- *)

\* Both servers keep the installation in the single row id = 1.
RowId == 1

Row(id, rt, at, exp) ==
    [id |-> id, refresh_token |-> rt, access_token |-> at, expires_at |-> exp]

NoTokens == [refresh_token |-> 0, access_token |-> 0, expires_at |-> 0]

Columns(r) ==
    [refresh_token |-> r.refresh_token, access_token |-> r.access_token,
     expires_at |-> r.expires_at]

RowsWithId(tbl, id) == {r \in tbl : r.id = id}

\* .select('refresh_token, access_token, expires_at').eq('id', 1).single():
\* the one matching row, or an error when there is not exactly one.
SelectSingle(tbl, id) ==
    IF Cardinality(RowsWithId(tbl, id)) = 1
    THEN [data |-> <<Columns(CHOOSE r \in RowsWithId(tbl, id) : TRUE)>>, error |-> FALSE]
    ELSE [data |-> <<>>, error |-> TRUE]

\* The select when the storage service itself fails.
SelectFailed == [data |-> <<>>, error |-> TRUE]

\* .update({ access_token, expires_at }).eq('id', 1): the matching rows are
\* changed in place, the other columns are kept, no row is created.
UpdateRowTokenOnly(tbl, id, at, exp) ==
    {IF r.id = id THEN [r EXCEPT !.access_token = at] ELSE r : r \in tbl}

UpdateRow(tbl, id, at, exp) ==
    {IF r.id = id THEN [r EXCEPT !.access_token = at, !.expires_at = exp] ELSE r : r \in tbl}

\* .upsert({ id: 1, ... }, { onConflict: 'id' }): the row with this id is
\* replaced, or inserted when there is none.
UpsertRowInsert(tbl, row) == tbl \cup {row}

UpsertRowKeepsOld(tbl, row) ==
    IF RowsWithId(tbl, row.id) = {} THEN tbl \cup {row} ELSE tbl

UpsertRow(tbl, row) == (tbl \ RowsWithId(tbl, row.id)) \cup {row}

(* ------------------------- getValidAccessToken -------------------------- *)

\* if (error || !installation)
InstallationMissingIgnored(s) == FALSE

InstallationMissing(s) == s.error \/ s.data = <<>>

\* if (new Date() > new Date(expires_at))
IsExpiredAlways(t, expires_at) == TRUE

IsExpired(t, expires_at) == t > expires_at

\* new Date(Date.now() + expires_in * 1000).toISOString(), read back by new Date()
ExpiresAt(t, expires_in) == t + expires_in * 1000

\* if (!response.ok) throw ...; a fetch that rejects throws as well.
RefreshRejectedNever(h) == FALSE

RefreshRejected(h) == h.outcome # "ok"

InstallationMissingMessage(v) ==
    IF v = "server"
    THEN "Could not find installation. Please reinstall the app by visiting the /api/install URL."
    ELSE "Could not find installation. Please reinstall the app by visiting the install URL."

RefreshFailedMessage == "Failed to refresh access token"
DestructureMessage == "TypeError: Cannot destructure property of null"
NetworkMessage == "FetchError: request failed"

NoOut == [status |-> "none", value |-> 0, message |-> ""]
Returned(at) == [status |-> "returned", value |-> at, message |-> ""]
Threw(msg) == [status |-> "threw", value |-> 0, message |-> msg]

NoHttp == [outcome |-> "none", access_token |-> 0, refresh_token |-> 0,
           expires_in |-> 0, hub_id |-> 0, body |-> ""]
OkTokens(at, rt, ttl) == [NoHttp EXCEPT !.outcome = "ok", !.access_token = at,
                                        !.refresh_token = rt, !.expires_in = ttl]
OkTokenInfo(hub) == [NoHttp EXCEPT !.outcome = "ok", !.hub_id = hub]
BadHttp(body) == [NoHttp EXCEPT !.outcome = "bad", !.body = body]
ThrowHttp == [NoHttp EXCEPT !.outcome = "throw", !.body = NetworkMessage]

NoSel == [data |-> <<>>, error |-> FALSE]
NoRes == [status |-> 0, body |-> "", redirect |-> "", cookie |-> FALSE,
          auditResults |-> <<>>]
NoObs == [tokenCalls |-> 0, writes |-> 0, crmCalls |-> 0]
NoReq == [portalId |-> "", type |-> ""]

\* The storage service answers the select (line 30).
GvSelect(p) ==
    /\ pc[p] = "gv_select"
    /\ \E s \in {SelectSingle(store, RowId), SelectFailed} :
          sel' = [sel EXCEPT ![p] = s]
    /\ pc' = [pc EXCEPT ![p] = "gv_check"]
    /\ UNCHANGED <<variant, now, store, issued, grants, usedCodes, started, kind, code, tok, http,
                   out, res, obs, lastWrite>>
    /\ UNCHANGED <<auditVars, detailVars>>

\* Lines 31-37: the missing installation, the destructuring, the expiry test
\* and, when expired, the refresh request to the provider.
GvCheck(p) ==
    /\ pc[p] = "gv_check"
    /\ IF InstallationMissing(sel[p])
       THEN /\ out' = [out EXCEPT ![p] = Threw(InstallationMissingMessage(variant))]
            /\ pc' = [pc EXCEPT ![p] = "gv_end"]
            /\ UNCHANGED <<tok, obs>>
       ELSE IF sel[p].data = <<>>
       THEN /\ out' = [out EXCEPT ![p] = Threw(DestructureMessage)]
            /\ pc' = [pc EXCEPT ![p] = "gv_end"]
            /\ UNCHANGED <<tok, obs>>
       ELSE IF IsExpired(now, sel[p].data[1].expires_at)
       THEN /\ tok' = [tok EXCEPT ![p] = sel[p].data[1]]
            /\ obs' = [obs EXCEPT ![p].tokenCalls = @ + 1]
            /\ pc' = [pc EXCEPT ![p] = "gv_fetch"]
            /\ UNCHANGED out
       ELSE /\ tok' = [tok EXCEPT ![p] = sel[p].data[1]]
            /\ out' = [out EXCEPT ![p] = Returned(sel[p].data[1].access_token)]
            /\ pc' = [pc EXCEPT ![p] = "gv_end"]
            /\ UNCHANGED obs
    /\ UNCHANGED <<variant, now, store, issued, grants, usedCodes, started, kind, code, sel, http,
                   res, lastWrite>>
    /\ UNCHANGED <<auditVars, detailVars>>

\* The provider answers grant_type=refresh_token: a new access token, with the
\* refresh token it was asked with or a new one in its place; or a rejection;
\* or the request fails on the network.
GvProvider(p) ==
    /\ pc[p] = "gv_fetch"
    /\ \/ \E ttl \in TTLs :
            /\ http' = [http EXCEPT ![p] = OkTokens(issued.at + 1, tok[p].refresh_token, ttl)]
            /\ issued' = [issued EXCEPT !.at = @ + 1]
            /\ grants' = grants \cup {<<issued.at + 1, tok[p].refresh_token>>}
       \/ \E ttl \in TTLs :
            /\ http' = [http EXCEPT ![p] = OkTokens(issued.at + 1, issued.rt + 1, ttl)]
            /\ issued' = [at |-> issued.at + 1, rt |-> issued.rt + 1]
            /\ grants' = grants \cup {<<issued.at + 1, tok[p].refresh_token>>,
                                       <<issued.at + 1, issued.rt + 1>>}
       \/ /\ http' = [http EXCEPT ![p] = BadHttp("BAD_REFRESH_TOKEN")]
          /\ UNCHANGED <<issued, grants>>
       \/ /\ http' = [http EXCEPT ![p] = ThrowHttp]
          /\ UNCHANGED <<issued, grants>>
    /\ pc' = [pc EXCEPT ![p] = "gv_resp"]
    /\ UNCHANGED <<variant, now, store, usedCodes, started, kind, code, sel, tok, out, res,
                   obs, lastWrite>>
    /\ UNCHANGED <<auditVars, detailVars>>

\* Lines 38-42 up to the await of the update: the response is checked, the
\* new access token and its expiry are taken, the update is sent.
GvResume(p) ==
    /\ pc[p] = "gv_resp"
    /\ IF RefreshRejected(http[p])
       THEN /\ out' = [out EXCEPT ![p] =
                        Threw(IF http[p].outcome = "throw" THEN NetworkMessage
                              ELSE RefreshFailedMessage)]
            /\ pc' = [pc EXCEPT ![p] = "gv_end"]
            /\ UNCHANGED tok
       ELSE /\ tok' = [tok EXCEPT ![p].access_token = http[p].access_token,
                                  ![p].expires_at = ExpiresAt(now, http[p].expires_in)]
            /\ pc' = [pc EXCEPT ![p] = "gv_update"]
            /\ UNCHANGED out
    /\ UNCHANGED <<variant, now, store, issued, grants, usedCodes, started, kind, code, sel, http,
                   res, obs, lastWrite>>
    /\ UNCHANGED <<auditVars, detailVars>>

\* The storage service applies the update (line 42).
GvUpdate(p) ==
    /\ pc[p] = "gv_update"
    /\ store' = UpdateRow(store, RowId, tok[p].access_token, tok[p].expires_at)
    /\ obs' = [obs EXCEPT ![p].writes = @ + 1]
    /\ lastWrite' = p
    /\ pc' = [pc EXCEPT ![p] = "gv_ret"]
    /\ UNCHANGED <<variant, now, issued, grants, usedCodes, started, kind, code, sel, tok, http, out, res>>
    /\ UNCHANGED <<auditVars, detailVars>>

\* return access_token (line 44), after the refresh.
GvReturn(p) ==
    /\ pc[p] = "gv_ret"
    /\ out' = [out EXCEPT ![p] = Returned(tok[p].access_token)]
    /\ pc' = [pc EXCEPT ![p] = "gv_end"]
    /\ UNCHANGED <<variant, now, store, issued, grants, usedCodes, started, kind, code, sel, tok, http,
                   res, obs, lastWrite>>
    /\ UNCHANGED <<auditVars, detailVars>>

(* ------------------------- /api/oauth-callback -------------------------- *)

\* if (!authCode)
MissingAuthCode(c) == c = NoCode

\* if (!response.ok) throw new Error(await response.text())
ExchangeRejectedNever(h) == FALSE

ExchangeRejected(h) == h.outcome # "ok"

\* if (!tokenInfoResponse.ok) throw new Error('Failed to fetch HubSpot token info')
TokenInfoRejected(h) == h.outcome # "ok"

\* The earlier server resolves the portal id before it stores the tokens.
ResolvesTenant(v) == v = "legacy"

MissingAuthCodeBody == "HubSpot authorization code not found."
TokenInfoFailedMessage == "Failed to fetch HubSpot token info"
ServerErrorBody(msg) == "<h1>Server Error</h1><p>" \o msg \o "</p>"

LandingUrl(v, hub) ==
    IF v = "server" THEN "APP_BASE_URL" ELSE "APP_BASE_URL/?portalId=" \o ToString(hub)

Send(status, body) == [NoRes EXCEPT !.status = status, !.body = body]

\* A callback request arrives: without a code it is answered 400 at once,
\* with one the code is sent to the provider's token endpoint.
CbStart(p) ==
    /\ pc[p] = "idle"
    /\ started < MaxRequests
    /\ started' = started + 1
    /\ kind' = [kind EXCEPT ![p] = "callback"]
    /\ \E c \in {NoCode} \cup Codes :
         /\ code' = [code EXCEPT ![p] = c]
         /\ IF MissingAuthCode(c)
            THEN /\ res' = [res EXCEPT ![p] = Send(400, MissingAuthCodeBody)]
                 /\ pc' = [pc EXCEPT ![p] = "done"]
                 /\ UNCHANGED obs
            ELSE /\ obs' = [obs EXCEPT ![p].tokenCalls = @ + 1]
                 /\ pc' = [pc EXCEPT ![p] = "cb_fetch"]
                 /\ UNCHANGED res
    /\ UNCHANGED <<variant, now, store, issued, grants, usedCodes, sel, tok, http, out,
                   lastWrite>>
    /\ UNCHANGED <<auditVars, detailVars>>

\* The provider answers grant_type=authorization_code: fresh tokens for a code
\* it has not exchanged before; or a rejection with an error body; or the
\* request fails on the network.
CbProvider(p) ==
    /\ pc[p] = "cb_fetch"
    /\ \/ \E ttl \in TTLs :
            /\ code[p] \notin usedCodes
            /\ http' = [http EXCEPT ![p] = OkTokens(issued.at + 1, issued.rt + 1, ttl)]
            /\ issued' = [at |-> issued.at + 1, rt |-> issued.rt + 1]
            /\ grants' = grants \cup {<<issued.at + 1, issued.rt + 1>>}
            /\ usedCodes' = usedCodes \cup {code[p]}
       \/ /\ http' = [http EXCEPT ![p] = BadHttp("BAD_AUTH_CODE")]
          /\ UNCHANGED <<issued, grants, usedCodes>>
       \/ /\ http' = [http EXCEPT ![p] = ThrowHttp]
          /\ UNCHANGED <<issued, grants, usedCodes>>
    /\ pc' = [pc EXCEPT ![p] = "cb_resp"]
    /\ UNCHANGED <<variant, now, store, started, kind, code, sel, tok, out, res, obs,
                   lastWrite>>
    /\ UNCHANGED <<auditVars, detailVars>>

\* Lines 59-65: the exchange response is checked, the tokens and the expiry
\* are taken; then the upsert is sent (server.js) or the token-info request
\* (the earlier server).
CbResume(p) ==
    /\ pc[p] = "cb_resp"
    /\ IF ExchangeRejected(http[p])
       THEN /\ res' = [res EXCEPT ![p] = Send(500, ServerErrorBody(http[p].body))]
            /\ pc' = [pc EXCEPT ![p] = "done"]
            /\ UNCHANGED tok
       ELSE /\ tok' = [tok EXCEPT ![p] =
                         [refresh_token |-> http[p].refresh_token,
                          access_token |-> http[p].access_token,
                          expires_at |-> ExpiresAt(now, http[p].expires_in)]]
            /\ pc' = [pc EXCEPT ![p] =
                         IF ResolvesTenant(variant) THEN "cb_info_fetch" ELSE "cb_upsert"]
            /\ UNCHANGED res
    /\ UNCHANGED <<variant, now, store, issued, grants, usedCodes, started, kind, code,
                   sel, http, out, obs, lastWrite>>
    /\ UNCHANGED <<auditVars, detailVars>>

\* The provider answers the token-info request of the earlier server.
CbInfoProvider(p) ==
    /\ pc[p] = "cb_info_fetch"
    /\ \/ http' = [http EXCEPT ![p] = OkTokenInfo(1)]
       \/ http' = [http EXCEPT ![p] = BadHttp("NOT_FOUND")]
       \/ http' = [http EXCEPT ![p] = ThrowHttp]
    /\ pc' = [pc EXCEPT ![p] = "cb_info_resp"]
    /\ UNCHANGED <<variant, now, store, issued, grants, usedCodes, started, kind, code,
                   sel, tok, out, res, obs, lastWrite>>
    /\ UNCHANGED <<auditVars, detailVars>>

\* part_000 lines 66-71: the token info is checked and the upsert is sent.
CbInfoResume(p) ==
    /\ pc[p] = "cb_info_resp"
    /\ IF TokenInfoRejected(http[p])
       THEN /\ res' = [res EXCEPT ![p] =
                         Send(500, ServerErrorBody(IF http[p].outcome = "throw"
                                                   THEN NetworkMessage
                                                   ELSE TokenInfoFailedMessage))]
            /\ pc' = [pc EXCEPT ![p] = "done"]
       ELSE /\ pc' = [pc EXCEPT ![p] = "cb_upsert"]
            /\ UNCHANGED res
    /\ UNCHANGED <<variant, now, store, issued, grants, usedCodes, started, kind, code,
                   sel, tok, http, out, obs, lastWrite>>
    /\ UNCHANGED <<auditVars, detailVars>>

\* The storage service applies the upsert.
CbUpsert(p) ==
    /\ pc[p] = "cb_upsert"
    /\ store' = UpsertRow(store, Row(RowId, tok[p].refresh_token, tok[p].access_token,
                                     tok[p].expires_at))
    /\ obs' = [obs EXCEPT ![p].writes = @ + 1]
    /\ lastWrite' = p
    /\ pc' = [pc EXCEPT ![p] = "cb_redirect"]
    /\ UNCHANGED <<variant, now, issued, grants, usedCodes, started, kind, code, sel, tok,
                   http, out, res>>
    /\ UNCHANGED <<auditVars, detailVars>>

\* res.redirect to the landing page (server.js sets a cookie first).
CbRedirect(p) ==
    /\ pc[p] = "cb_redirect"
    /\ res' = [res EXCEPT ![p] = [NoRes EXCEPT !.status = 302,
                                   !.redirect = LandingUrl(variant, http[p].hub_id),
                                   !.cookie = (variant = "server")]]
    /\ pc' = [pc EXCEPT ![p] = "done"]
    /\ UNCHANGED <<variant, now, store, issued, grants, usedCodes, started, kind, code,
                   sel, tok, http, out, obs, lastWrite>>
    /\ UNCHANGED <<auditVars, detailVars>>

(* ------------------------- callers and the clock ------------------------ *)

\* Some route handler calls getValidAccessToken().
TokenStart(p) ==
    /\ pc[p] = "idle"
    /\ started < MaxRequests
    /\ started' = started + 1
    /\ kind' = [kind EXCEPT ![p] = "token"]
    /\ pc' = [pc EXCEPT ![p] = "gv_select"]
    /\ UNCHANGED <<variant, now, store, issued, grants, usedCodes, code, sel, tok, http,
                   out, res, obs, lastWrite>>
    /\ UNCHANGED <<auditVars, detailVars>>

Finished(p) ==
    \/ pc[p] = "done"
    \/ pc[p] = "gv_end" /\ kind[p] = "token"

\* The request is over; its slot serves the next one.
Recycle(p) ==
    /\ Finished(p)
    /\ started < MaxRequests
    /\ pc' = [pc EXCEPT ![p] = "idle"]
    /\ kind' = [kind EXCEPT ![p] = "none"]
    /\ code' = [code EXCEPT ![p] = NoCode]
    /\ sel' = [sel EXCEPT ![p] = NoSel]
    /\ tok' = [tok EXCEPT ![p] = NoTokens]
    /\ http' = [http EXCEPT ![p] = NoHttp]
    /\ out' = [out EXCEPT ![p] = NoOut]
    /\ res' = [res EXCEPT ![p] = NoRes]
    /\ obs' = [obs EXCEPT ![p] = NoObs]
    /\ UNCHANGED <<variant, now, store, issued, grants, usedCodes, started, lastWrite>>
    /\ UNCHANGED <<auditVars, detailVars>>

Tick ==
    /\ \E d \in TickMs :
         /\ now + d <= MaxTicks * 1000
         /\ now' = now + d
    /\ UNCHANGED <<variant, store, issued, grants, usedCodes, started, pc, kind, code,
                   sel, tok, http, out, res, obs, lastWrite>>
    /\ UNCHANGED <<auditVars, detailVars>>

(* ------------------------ /api/ai-readiness-audit ----------------------- *)

\* What the CRM API reports: record counts per object type, the custom
\* contact properties, the stale open deals, the lifecycle stages, the workflows.
Datasets ==
    { [contacts |-> [total |-> 0, filled |-> 0], companies |-> [total |-> 0, filled |-> 0],
       deals |-> [total |-> 0, filled |-> 0], associated |-> 0,
       customProps |-> 0, describedProps |-> 0, rot |-> 0,
       stages |-> <<>>, workflows |-> 0],
      [contacts |-> [total |-> 200, filled |-> 50], companies |-> [total |-> 3, filled |-> 1],
       deals |-> [total |-> 1200, filled |-> 1200], associated |-> 120,
       customProps |-> 3, describedProps |-> 1, rot |-> 1200,
       stages |-> <<[stage |-> "Lead", count |-> 150], [stage |-> "Customer", count |-> 50]>>,
       workflows |-> 2] }

ProbeNames ==
    << "Core Contact Fill Rate", "Core Company Fill Rate", "Core Deal Fill Rate",
       "Contact Association Rate", "Property Definition Quality", "Deal Rot",
       "Lifecycle Stage Distribution", "Active Workflow Count" >>

Probes == 1..Len(ProbeNames)

\* The fetches each probe awaits: two under Promise.all for the rate probes.
ProbeFetches == <<2, 2, 2, 2, 1, 1, 1, 1>>

FetchOutcomes == {"ok", "bad", "throw"}

\* const [a, b] = await Promise.all([fetch, fetch]); if (!a.ok || !b.ok) ...
\* A fetch that rejects rejects the pair, whatever the other one answers.
PairOutcome(o1, o2) ==
    IF o1 = "throw" \/ o2 = "throw" THEN "throw"
    ELSE IF o1 = "bad" \/ o2 = "bad" THEN "bad"
    ELSE "ok"

\* What a probe can see of its fetches, taken together.
ProbeOutcomes(i) ==
    IF ProbeFetches[i] = 2
    THEN {PairOutcome(o1, o2) : o1 \in FetchOutcomes, o2 \in FetchOutcomes}
    ELSE FetchOutcomes

\* The quotient matching / total is rounded to a double before it is multiplied
\* by 100, so a percentage that is exactly k + 1/2 can come out just below it.
\* Such a percentage has a ratio with denominator 8, 40 or 200 in lowest
\* terms; of those, these four are the ones whose double product falls short.
BelowTie(matching, total) ==
    \/ 40 * matching = 23 * total
    \/ 200 * matching = 29 * total
    \/ 200 * matching = 57 * total
    \/ 200 * matching = 113 * total

\* Math.round((matching / total) * 100)
RoundPct(matching, total) ==
    IF BelowTie(matching, total)
    THEN (100 * matching) \div total
    ELSE (200 * matching + total) \div (2 * total)

Pad3(n) ==
    IF n < 10 THEN "00" \o ToString(n)
    ELSE IF n < 100 THEN "0" \o ToString(n)
    ELSE ToString(n)

\* Number.prototype.toLocaleString() of a count below one million
Localize(n) ==
    IF n < 1000 THEN ToString(n)
    ELSE ToString(n \div 1000) \o "," \o Pad3(n % 1000)

Metric(name, value, description) ==
    [metric |-> name, value |-> value, description |-> description]

ApiError(name, description) == Metric(name, "API Error", description)

Pending == Metric("", "pending", "")

\* getFillRate(objectType, properties, metricName)
FillRate(objectType, metricName, c, o) ==
    IF o = "throw" THEN ApiError(metricName, NetworkMessage)
    ELSE IF o = "bad"
    THEN ApiError(metricName, "Could not fetch " \o objectType \o " data.")
    ELSE LET rate == IF c.total > 0 THEN RoundPct(c.filled, c.total) ELSE 0
         IN  Metric(metricName, ToString(rate) \o "%",
                    "Based on " \o Localize(c.total) \o " total records.")

\* getAssociationRate()
AssociationRate(d, o) ==
    IF o = "throw" THEN ApiError("Contact Association Rate", NetworkMessage)
    ELSE IF o = "bad"
    THEN ApiError("Contact Association Rate", "Failed to fetch contact data.")
    ELSE LET rate == IF d.contacts.total > 0
                     THEN RoundPct(d.associated, d.contacts.total) ELSE 0
         IN  Metric("Contact Association Rate", ToString(rate) \o "%",
                    Localize(d.associated) \o " of " \o Localize(d.contacts.total)
                      \o " contacts are associated.")

\* getPropertyDefinitionQuality()
PropertyDefinitionQuality(d, o) ==
    IF o = "throw" THEN ApiError("Property Definition Quality", NetworkMessage)
    ELSE IF o = "bad"
    THEN ApiError("Property Definition Quality", "Could not fetch property definitions.")
    ELSE IF d.customProps = 0
    THEN Metric("Property Definition Quality", "N/A", "No custom contact properties found.")
    ELSE Metric("Property Definition Quality",
                ToString(RoundPct(d.describedProps, d.customProps)) \o "%",
                ToString(d.describedProps) \o " of " \o ToString(d.customProps)
                  \o " custom properties have descriptions.")

\* getDealRot()
DealRot(d, o) ==
    IF o = "throw" THEN ApiError("Deal Rot", NetworkMessage)
    ELSE IF o = "bad" THEN ApiError("Deal Rot", "Could not fetch deal activity.")
    ELSE Metric("Deal Rot", Localize(d.rot),
                "Open deals with no activity in the last 30 days.")

\* getLifecycleDistribution()
LifecycleDistribution(d, o) ==
    IF o = "throw" THEN ApiError("Lifecycle Stage Distribution", NetworkMessage)
    ELSE IF o = "bad"
    THEN ApiError("Lifecycle Stage Distribution", "Requires Marketing Hub Pro+.")
    ELSE [metric |-> "Lifecycle Stage Distribution", value |-> ToString(Len(d.stages)),
          description |-> "Distinct stages in active use.", details |-> d.stages]

\* getWorkflowCount()
WorkflowCount(d, o) ==
    IF o = "throw" THEN ApiError("Active Workflow Count", NetworkMessage)
    ELSE IF o = "bad" THEN ApiError("Active Workflow Count", "Could not fetch workflows.")
    ELSE Metric("Active Workflow Count", Localize(d.workflows), "Active workflows found.")

\* The i-th element of the array handed to Promise.all (lines 172-181).
ProbeResult(i, d, o) ==
    CASE i = 1 -> FillRate("contacts", "Core Contact Fill Rate", d.contacts, o)
      [] i = 2 -> FillRate("companies", "Core Company Fill Rate", d.companies, o)
      [] i = 3 -> FillRate("deals", "Core Deal Fill Rate", d.deals, o)
      [] i = 4 -> AssociationRate(d, o)
      [] i = 5 -> PropertyDefinitionQuality(d, o)
      [] i = 6 -> DealRot(d, o)
      [] i = 7 -> LifecycleDistribution(d, o)
      [] OTHER -> WorkflowCount(d, o)

\* Every probe body is one try/catch whose catch returns a Metric Result, so
\* no outcome makes a probe's promise reject.
ProbeRejectsOnThrow(o) == o = "throw"

ProbeRejects(o) == FALSE

\* Promise.all puts the value of the i-th promise at index i.
PromiseAllPush(arr, i, r) ==
    LET first == CHOOSE k \in 1..Len(arr) :
                     arr[k] = Pending /\ \A j \in 1..(k - 1) : arr[j] # Pending
    IN  [arr EXCEPT ![first] = r]

PromiseAllPlace(arr, i, r) == [arr EXCEPT ![i] = r]

Sum(f) == LET S[k \in 0..Len(f)] == IF k = 0 THEN 0 ELSE S[k - 1] + f[k] IN S[Len(f)]

\* const accessToken = await getValidAccessToken(), inside the route's try
TokenObtainedAlways(o) == TRUE

TokenObtained(o) == o.status = "returned"

AuditErrorBody(msg) == "{message: " \o msg \o "}"

\* An audit request arrives and calls getValidAccessToken() (line 77).
AuStart(p) ==
    /\ pc[p] = "idle"
    /\ started < MaxRequests
    /\ started' = started + 1
    /\ kind' = [kind EXCEPT ![p] = "audit"]
    /\ pc' = [pc EXCEPT ![p] = "gv_select"]
    /\ UNCHANGED <<variant, now, store, issued, grants, usedCodes, code, sel, tok, http,
                   out, res, obs, lastWrite>>
    /\ UNCHANGED <<auditVars, detailVars>>

\* getValidAccessToken threw: the route's catch answers 500 (lines 185-188).
AuFail(p) ==
    /\ pc[p] = "gv_end"
    /\ kind[p] = "audit"
    /\ ~TokenObtained(out[p])
    /\ res' = [res EXCEPT ![p] = Send(500, AuditErrorBody(out[p].message))]
    /\ pc' = [pc EXCEPT ![p] = "done"]
    /\ UNCHANGED <<variant, now, store, issued, grants, usedCodes, started, kind, code,
                   sel, tok, http, out, obs, lastWrite>>
    /\ UNCHANGED <<auditVars, detailVars>>

\* The token is there: the eight probes are called, each runs up to its first
\* await with its fetches sent, and Promise.all waits for them (lines 78-181).
AuLaunch(p) ==
    /\ pc[p] = "gv_end"
    /\ kind[p] = "audit"
    /\ TokenObtained(out[p])
    /\ probeOut' = [i \in Probes |-> "pending"]
    /\ results' = [i \in Probes |-> Pending]
    /\ outOfOrder' = FALSE
    /\ obs' = [obs EXCEPT ![p].crmCalls = @ + Sum(ProbeFetches)]
    /\ pc' = [pc EXCEPT ![p] = "au_wait"]
    /\ UNCHANGED <<variant, now, store, issued, grants, usedCodes, started, kind, code,
                   sel, tok, http, out, res, lastWrite, crm, req>>

\* Probe i gets its answers from the CRM API and settles.
ProbeSettle(p, i) ==
    /\ pc[p] = "au_wait"
    /\ probeOut[i] = "pending"
    /\ outOfOrder' = (outOfOrder \/ \E j \in 1..(i - 1) : probeOut[j] = "pending")
    /\ \E o \in ProbeOutcomes(i) :
         /\ probeOut' = [probeOut EXCEPT ![i] = o]
         /\ IF ProbeRejects(o)
            THEN /\ res' = [res EXCEPT ![p] = Send(500, AuditErrorBody(NetworkMessage))]
                 /\ pc' = [pc EXCEPT ![p] = "done"]
                 /\ UNCHANGED results
            ELSE /\ results' = PromiseAllPlace(results, i, ProbeResult(i, crm, o))
                 /\ UNCHANGED <<res, pc>>
    /\ UNCHANGED <<variant, now, store, issued, grants, usedCodes, started, kind, code,
                   sel, tok, http, out, obs, lastWrite, crm, req>>

\* All probes have settled: res.json({ auditResults: results }) (line 183).
AuRespond(p) ==
    /\ pc[p] = "au_wait"
    /\ \A i \in Probes : probeOut[i] # "pending"
    /\ res' = [res EXCEPT ![p] = [NoRes EXCEPT !.status = 200, !.auditResults = results]]
    /\ pc' = [pc EXCEPT ![p] = "done"]
    /\ UNCHANGED <<variant, now, store, issued, grants, usedCodes, started, kind, code,
                   sel, tok, http, out, obs, lastWrite>>
    /\ UNCHANGED <<auditVars, detailVars>>

(* ------------- GET /api/data-health/details (earlier server) ------------ *)

\* req.header('X-HubSpot-Portal-Id') and req.query.type; "" stands for absent.
PortalIds == {"", "4242"}
DetailTypes == {"", "orphanedContacts", "emptyCompanies", "allContacts"}

\* if (!portalId || !type)
MissingDetailParams(r) == r.portalId = "" \/ r.type = ""

\* The if / else if chain that picks objectType and searchBody.
KnownDetailType(type) == type \in {"orphanedContacts", "emptyCompanies"}

DetailObjectType(type) == IF type = "orphanedContacts" THEN "contacts" ELSE "companies"

MissingDetailParamsMessage == "Portal ID and audit type are required."
InvalidDetailTypeMessage == "Invalid detail type requested."
DetailsFailedMessage(type) == "Failed to fetch details for " \o type
DetailsBody(msg) == "{message: " \o msg \o "}"
DetailsResults(type) == "{results: " \o DetailObjectType(type) \o "}"

OkSearch(type) == [NoHttp EXCEPT !.outcome = "ok", !.body = DetailsResults(type)]

\* A details request arrives.  Without a portal id or a type it is answered
\* 400 before the try; otherwise getValidAccessToken is called first thing.
DhStart(p) ==
    /\ variant = "legacy"
    /\ pc[p] = "idle"
    /\ started < MaxRequests
    /\ started' = started + 1
    /\ kind' = [kind EXCEPT ![p] = "details"]
    /\ \E id \in PortalIds, type \in DetailTypes :
         LET r == [portalId |-> id, type |-> type]
         IN  /\ req' = [req EXCEPT ![p] = r]
             /\ IF MissingDetailParams(r)
                THEN /\ res' = [res EXCEPT ![p] =
                                    Send(400, DetailsBody(MissingDetailParamsMessage))]
                     /\ pc' = [pc EXCEPT ![p] = "done"]
                ELSE /\ pc' = [pc EXCEPT ![p] = "gv_select"]
                     /\ UNCHANGED res
    /\ UNCHANGED <<variant, now, store, issued, grants, usedCodes, code, sel, tok, http,
                   out, obs, lastWrite>>
    /\ UNCHANGED auditVars

\* getValidAccessToken threw: the catch answers 500 with its message.
DhFail(p) ==
    /\ pc[p] = "gv_end"
    /\ kind[p] = "details"
    /\ ~TokenObtained(out[p])
    /\ res' = [res EXCEPT ![p] = Send(500, DetailsBody(out[p].message))]
    /\ pc' = [pc EXCEPT ![p] = "done"]
    /\ UNCHANGED <<variant, now, store, issued, grants, usedCodes, started, kind, code,
                   sel, tok, http, out, obs, lastWrite>>
    /\ UNCHANGED <<auditVars, detailVars>>

\* The token is there: a known type sends the CRM search, any other type is
\* answered 400 by the final else.
DhBranch(p) ==
    /\ pc[p] = "gv_end"
    /\ kind[p] = "details"
    /\ TokenObtained(out[p])
    /\ IF KnownDetailType(req[p].type)
       THEN /\ obs' = [obs EXCEPT ![p].crmCalls = @ + 1]
            /\ pc' = [pc EXCEPT ![p] = "dh_fetch"]
            /\ UNCHANGED res
       ELSE /\ res' = [res EXCEPT ![p] = Send(400, DetailsBody(InvalidDetailTypeMessage))]
            /\ pc' = [pc EXCEPT ![p] = "done"]
            /\ UNCHANGED obs
    /\ UNCHANGED <<variant, now, store, issued, grants, usedCodes, started, kind, code,
                   sel, tok, http, out, lastWrite>>
    /\ UNCHANGED <<auditVars, detailVars>>

\* The CRM API answers the search, or the fetch fails.
DhCrm(p) ==
    /\ pc[p] = "dh_fetch"
    /\ \E h \in {OkSearch(req[p].type), BadHttp(""), ThrowHttp} :
         http' = [http EXCEPT ![p] = h]
    /\ pc' = [pc EXCEPT ![p] = "dh_resp"]
    /\ UNCHANGED <<variant, now, store, issued, grants, usedCodes, started, kind, code,
                   sel, tok, out, res, obs, lastWrite>>
    /\ UNCHANGED <<auditVars, detailVars>>

\* The handler resumes: res.json({ results }) or the catch's 500.
DhRespond(p) ==
    /\ pc[p] = "dh_resp"
    /\ res' = [res EXCEPT ![p] =
                  CASE http[p].outcome = "ok" -> Send(200, http[p].body)
                    [] http[p].outcome = "bad" ->
                         Send(500, DetailsBody(DetailsFailedMessage(req[p].type)))
                    [] OTHER -> Send(500, DetailsBody(NetworkMessage))]
    /\ pc' = [pc EXCEPT ![p] = "done"]
    /\ UNCHANGED <<variant, now, store, issued, grants, usedCodes, started, kind, code,
                   sel, tok, http, out, obs, lastWrite>>
    /\ UNCHANGED <<auditVars, detailVars>>

(* --------------------------- specifications ----------------------------- *)

InitSlots ==
    /\ started = 0
    /\ pc = [p \in Procs |-> "idle"]
    /\ kind = [p \in Procs |-> "none"]
    /\ code = [p \in Procs |-> NoCode]
    /\ sel = [p \in Procs |-> NoSel]
    /\ tok = [p \in Procs |-> NoTokens]
    /\ http = [p \in Procs |-> NoHttp]
    /\ out = [p \in Procs |-> NoOut]
    /\ res = [p \in Procs |-> NoRes]
    /\ obs = [p \in Procs |-> NoObs]
    /\ req = [p \in Procs |-> NoReq]
    /\ lastWrite = 0

\* The server starts on an empty tokens table; nothing was issued yet.
Init ==
    /\ variant \in Variants
    /\ now = 0
    /\ store = {}
    /\ issued = [at |-> 0, rt |-> 0]
    /\ grants = {}
    /\ usedCodes = {}
    /\ InitSlots
    /\ crm \in Datasets
    /\ probeOut = [i \in Probes |-> "idle"]
    /\ results = <<>>
    /\ outOfOrder = FALSE

Next ==
    \/ Tick
    \/ \E p \in Procs :
         \/ TokenStart(p)
         \/ GvSelect(p)
         \/ GvCheck(p)
         \/ GvProvider(p)
         \/ GvResume(p)
         \/ GvUpdate(p)
         \/ GvReturn(p)
         \/ CbStart(p)
         \/ CbProvider(p)
         \/ CbResume(p)
         \/ CbInfoProvider(p)
         \/ CbInfoResume(p)
         \/ CbUpsert(p)
         \/ CbRedirect(p)
         \/ Recycle(p)

Spec == Init /\ [][Next]_vars

\* The audit route exists in server.js only.  The server may start on a
\* tokens table that an earlier run has filled.
AuditProcs == {1}

InitAudit ==
    /\ variant = "server"
    /\ now = 0
    /\ \/ /\ store = {}
          /\ issued = [at |-> 0, rt |-> 0]
          /\ grants = {}
          /\ usedCodes = {}
       \/ /\ store = {Row(RowId, 1, 1, 1000)}
          /\ issued = [at |-> 1, rt |-> 1]
          /\ grants = {<<1, 1>>}
          /\ usedCodes = {1}
    /\ InitSlots
    /\ crm \in Datasets
    /\ probeOut = [i \in Probes |-> "idle"]
    /\ results = <<>>
    /\ outOfOrder = FALSE

NextAudit ==
    \/ Tick
    \/ \E p \in AuditProcs :
         \/ AuStart(p)
         \/ GvSelect(p)
         \/ GvCheck(p)
         \/ GvProvider(p)
         \/ GvResume(p)
         \/ GvUpdate(p)
         \/ GvReturn(p)
         \/ AuFail(p)
         \/ AuLaunch(p)
         \/ \E i \in Probes : ProbeSettle(p, i)
         \/ AuRespond(p)

SpecAudit == InitAudit /\ [][NextAudit]_vars

\* server.js starts on a table that an earlier run has filled: the row's
\* token is valid at the start and expired from the first tick on.
InitInstalled ==
    /\ variant = "server"
    /\ now = 0
    /\ store = {Row(RowId, 1, 1, 0)}
    /\ issued = [at |-> 1, rt |-> 1]
    /\ grants = {<<1, 1>>}
    /\ usedCodes = {1}
    /\ InitSlots
    /\ crm \in Datasets
    /\ probeOut = [i \in Probes |-> "idle"]
    /\ results = <<>>
    /\ outOfOrder = FALSE

\* Token calls and callbacks of server.js, which asks for no token info.
NextInstalled ==
    \/ Tick
    \/ \E p \in Procs :
         \/ TokenStart(p)
         \/ GvSelect(p)
         \/ GvCheck(p)
         \/ GvProvider(p)
         \/ GvResume(p)
         \/ GvUpdate(p)
         \/ GvReturn(p)
         \/ CbStart(p)
         \/ CbProvider(p)
         \/ CbResume(p)
         \/ CbUpsert(p)
         \/ CbRedirect(p)
         \/ Recycle(p)

SpecInstalled == InitInstalled /\ [][NextInstalled]_vars

\* The rate probes as functions of the counts the CRM returns: every total up
\* to MaxTotal with every matching count up to it.  The three fill rates see
\* the same pair, the association rate sees it as (associated, contacts), the
\* definition quality as (described, custom).
MaxTotal == 200

RateDataset(total, matching) ==
    [contacts |-> [total |-> total, filled |-> matching],
     companies |-> [total |-> total, filled |-> matching],
     deals |-> [total |-> total, filled |-> matching],
     associated |-> matching,
     customProps |-> total, describedProps |-> matching, rot |-> 0,
     stages |-> <<>>, workflows |-> 0]

RateProbes == {1, 4, 5}

InitRate ==
    /\ variant = "server"
    /\ now = 0
    /\ store = {}
    /\ issued = [at |-> 0, rt |-> 0]
    /\ grants = {}
    /\ usedCodes = {}
    /\ InitSlots
    /\ \E total \in 0..MaxTotal : \E matching \in 0..total :
         crm = RateDataset(total, matching)
    /\ probeOut = [i \in Probes |-> "idle"]
    /\ results = [i \in Probes |-> Pending]
    /\ outOfOrder = FALSE

\* Probe i runs on answers that arrived and were ok.
RateProbe(i) ==
    /\ probeOut[i] = "idle"
    /\ probeOut' = [probeOut EXCEPT ![i] = "ok"]
    /\ results' = [results EXCEPT ![i] = ProbeResult(i, crm, "ok")]
    /\ UNCHANGED <<variant, now, store, issued, grants, usedCodes, started, pc, kind, code,
                   sel, tok, http, out, res, obs, lastWrite, crm, outOfOrder, req>>

NextRate == \E i \in RateProbes : RateProbe(i)

SpecRate == InitRate /\ [][NextRate]_vars

\* The details route exists in the earlier server only.  The table is empty
\* or holds a row whose token is valid until the clock passes its expiry.
DetailProcs == {1}

InitDetails ==
    /\ variant = "legacy"
    /\ now = 0
    /\ \/ /\ store = {}
          /\ issued = [at |-> 0, rt |-> 0]
          /\ grants = {}
          /\ usedCodes = {}
       \/ /\ store = {Row(RowId, 1, 1, 1000)}
          /\ issued = [at |-> 1, rt |-> 1]
          /\ grants = {<<1, 1>>}
          /\ usedCodes = {1}
    /\ InitSlots
    /\ crm \in Datasets
    /\ probeOut = [i \in Probes |-> "idle"]
    /\ results = <<>>
    /\ outOfOrder = FALSE

NextDetails ==
    \/ Tick
    \/ \E p \in DetailProcs :
         \/ DhStart(p)
         \/ GvSelect(p)
         \/ GvCheck(p)
         \/ GvProvider(p)
         \/ GvResume(p)
         \/ GvUpdate(p)
         \/ GvReturn(p)
         \/ DhFail(p)
         \/ DhBranch(p)
         \/ DhCrm(p)
         \/ DhRespond(p)
         \/ Recycle(p)

SpecDetails == InitDetails /\ [][NextDetails]_vars

(* ------------------------------- claims --------------------------------- *)

TokenCall(p) == kind[p] = "token" /\ pc[p] = "gv_end"

\* C1: a getValidAccessToken call whose select found no row, or failed, ends
\* by throwing the "could not find installation" error, and has made no call
\* to the OAuth token endpoint and no storage write.
C1_MissingInstallationThrows ==
    \A p \in Procs :
        (kind[p] = "token" /\ pc[p] \notin {"idle", "gv_select", "gv_check"}
           /\ (sel[p].error \/ sel[p].data = <<>>))
        => /\ pc[p] = "gv_end"
           /\ out[p] = Threw(InstallationMissingMessage(variant))
           /\ obs[p].tokenCalls = 0
           /\ obs[p].writes = 0

C1_Witness ==
    \E p \in Procs :
        /\ TokenCall(p)
        /\ store = {}
        /\ sel[p].data = <<>>
        /\ out[p].status = "threw"

\* C2: a call that read a record whose expires_at is still in the future
\* returns the access_token it read, and has made no call to the token
\* endpoint and no storage write.
C2_ValidTokenReturnedUntouched ==
    \A p \in Procs :
        (kind[p] = "token" /\ pc[p] \notin {"idle", "gv_select", "gv_check"}
           /\ ~sel[p].error /\ sel[p].data # <<>>
           /\ sel[p].data[1].expires_at > now)
        => /\ pc[p] = "gv_end"
           /\ out[p] = Returned(sel[p].data[1].access_token)
           /\ obs[p].tokenCalls = 0
           /\ obs[p].writes = 0

C2_Witness ==
    \E p \in Procs :
        /\ TokenCall(p)
        /\ sel[p].data # <<>>
        /\ sel[p].data[1].expires_at > now
        /\ out[p].status = "returned"
        /\ store = {Row(RowId, sel[p].data[1].refresh_token,
                        sel[p].data[1].access_token, sel[p].data[1].expires_at)}

\* C3: after a successful refresh of an expired record the new access token is
\* taken with expires_at = now + ttl * 1000, the update leaves the row with
\* that access_token and expires_at, the stored refresh_token is the one the
\* response carried when that is a new one and is left as it was otherwise,
\* and the call returns the new access token.
C3_RefreshPersistsProviderTokens ==
    [][\A p \in Procs :
        /\ (pc[p] = "gv_resp" /\ pc'[p] = "gv_update")
           => /\ tok'[p].access_token = http[p].access_token
              /\ tok'[p].expires_at = now + http[p].expires_in * 1000
        /\ (pc[p] = "gv_update" /\ pc'[p] = "gv_ret")
           => /\ Cardinality(store') = 1
              /\ \A old \in store : \A new \in store' :
                   /\ new.access_token = http[p].access_token
                   /\ new.expires_at = tok[p].expires_at
                   /\ new.refresh_token =
                        IF http[p].refresh_token # tok[p].refresh_token
                        THEN http[p].refresh_token
                        ELSE old.refresh_token
        /\ (pc[p] = "gv_ret" /\ pc'[p] = "gv_end")
           => out'[p] = Returned(http[p].access_token)
      ]_vars

\* C4: a call whose refresh request the provider rejected ends by throwing
\* "Failed to refresh access token", returns no token and has made no storage
\* write.
C4_RefreshFailedLeavesStore ==
    \A p \in Procs :
        (kind[p] = "token" /\ pc[p] \notin {"idle", "gv_select", "gv_check", "gv_fetch", "gv_resp"}
           /\ http[p].outcome = "bad")
        => /\ pc[p] = "gv_end"
           /\ out[p] = Threw(RefreshFailedMessage)
           /\ out[p].value = 0
           /\ obs[p].writes = 0

C4_Witness ==
    \E p \in Procs :
        /\ TokenCall(p)
        /\ http[p].outcome = "bad"
        /\ out[p].status = "threw"
        /\ obs[p].tokenCalls = 1
        /\ store = {Row(RowId, tok[p].refresh_token, tok[p].access_token, tok[p].expires_at)}

\* C5: the tokens table never holds two rows with the same id.
C5_OneRowPerKey ==
    \A r1 \in store : \A r2 \in store : r1.id = r2.id => r1 = r2

C5_Witness ==
    /\ Cardinality(store) = 1
    /\ \A p \in Procs : kind[p] = "callback" /\ obs[p].writes = 1

\* C6: when two callbacks with distinct codes have both stored their tokens,
\* the table holds exactly the one row written by the later upsert: the
\* refresh_token, access_token and expires_at that call obtained.
C6_SecondCallbackSupersedes ==
    \A p \in Procs : \A q \in Procs :
        (p # q /\ kind[p] = "callback" /\ kind[q] = "callback"
           /\ obs[p].writes = 1 /\ obs[q].writes = 1 /\ lastWrite = q)
        => /\ store = {Row(RowId, tok[q].refresh_token, tok[q].access_token,
                           tok[q].expires_at)}
           /\ <<tok[q].access_token, tok[q].refresh_token>> \in grants
           /\ code[p] # code[q]

C6_Witness ==
    \E p \in Procs : \E q \in Procs :
        /\ p # q
        /\ res[p].status = 302 /\ res[q].status = 302
        /\ kind[p] = "callback" /\ kind[q] = "callback"
        /\ lastWrite = q
        /\ tok[p] # tok[q]
        /\ store = {Row(RowId, tok[q].refresh_token, tok[q].access_token, tok[q].expires_at)}

Failed(i) == probeOut[i] \in {"bad", "throw"}

\* C7: an audit that got its access token answers 200 with one Metric Result
\* per probe, whatever each probe met: "API Error" for a probe that met a
\* non-success response or an exception, the normal value for every other.
C7_EveryProbeReported ==
    \A p \in AuditProcs :
        (kind[p] = "audit" /\ pc[p] = "done" /\ out[p].status = "returned")
        => /\ res[p].status = 200
           /\ Len(res[p].auditResults) = Len(ProbeNames)
           /\ \A i \in Probes :
                /\ Cardinality({j \in Probes : res[p].auditResults[j].metric = ProbeNames[i]}) = 1
                /\ Failed(i) => res[p].auditResults[i].value = "API Error"
                /\ ~Failed(i) => /\ res[p].auditResults[i] = ProbeResult(i, crm, "ok")
                                 /\ res[p].auditResults[i].value # "API Error"

C7_Witness ==
    \E p \in AuditProcs :
        /\ pc[p] = "done"
        /\ res[p].status = 200
        /\ probeOut[1] = "ok" /\ probeOut[2] = "throw" /\ probeOut[3] = "ok"
        /\ probeOut[7] = "bad"
        /\ res[p].auditResults[2].value = "API Error"
        /\ res[p].auditResults[3].value = "100%"

\* C8: the audit's response lists the Metric Results in the declaration order
\* of the probes, in whatever order they settled, and is sent only when every
\* probe has settled; while the audit waits, each settled probe's result sits
\* at the probe's own index of the array.
C8_DeclarationOrder ==
    \A p \in AuditProcs :
        /\ (kind[p] = "audit" /\ out[p].status = "returned" /\ res[p].status # 0)
           => /\ \A i \in Probes : probeOut[i] \in FetchOutcomes
              /\ Len(res[p].auditResults) = Len(ProbeNames)
              /\ \A i \in Probes : res[p].auditResults[i].metric = ProbeNames[i]
        /\ pc[p] = "au_wait"
           => \A i \in Probes :
                IF probeOut[i] = "pending" THEN results[i] = Pending
                ELSE results[i].metric = ProbeNames[i]

C8_Witness ==
    \E p \in AuditProcs :
        /\ res[p].status = 200
        /\ outOfOrder
        /\ \A i \in Probes : res[p].auditResults[i].metric = ProbeNames[i]

\* C9: an audit whose getValidAccessToken call threw answers 500 with that
\* error's message; no probe was launched, no CRM call was made and the
\* response carries no audit results.
C9_TokenFailureAbortsAudit ==
    \A p \in AuditProcs :
        (kind[p] = "audit" /\ out[p].status = "threw")
        => /\ obs[p].crmCalls = 0
           /\ \A i \in Probes : probeOut[i] = "idle"
           /\ pc[p] \in {"gv_end", "done"}
           /\ pc[p] = "done" => res[p] = Send(500, AuditErrorBody(out[p].message))
           /\ out[p].message \in {InstallationMissingMessage(variant), RefreshFailedMessage,
                                  NetworkMessage}

C9_Witness ==
    \E p \in AuditProcs :
        /\ pc[p] = "done"
        /\ out[p] = Threw(RefreshFailedMessage)
        /\ res[p].status = 500
        /\ res[p].auditResults = <<>>

\* C10: a callback that fails leaves the table alone and does not redirect:
\* without a code it answers 400 and calls nothing; a rejected code exchange
\* answers 500 with the provider's error body; a failed portal lookup answers
\* 500 with its error text.
C10_FailedCallbackLeavesStore ==
    \A p \in Procs :
        (kind[p] = "callback" /\ pc[p] = "done")
        => /\ code[p] = NoCode
                => /\ res[p] = Send(400, MissingAuthCodeBody)
                   /\ obs[p].tokenCalls = 0
                   /\ obs[p].writes = 0
           /\ (code[p] # NoCode /\ tok[p] = NoTokens /\ http[p].outcome = "bad")
                => /\ res[p] = Send(500, ServerErrorBody(http[p].body))
                   /\ obs[p].writes = 0
           /\ (tok[p] # NoTokens /\ http[p].outcome = "bad")
                => /\ res[p] = Send(500, ServerErrorBody(TokenInfoFailedMessage))
                   /\ obs[p].writes = 0
           /\ res[p].status # 302 => (obs[p].writes = 0 /\ res[p].redirect = "")

C10_Witness ==
    \E p \in Procs :
        /\ kind[p] = "callback"
        /\ pc[p] = "done"
        /\ res[p] = Send(500, ServerErrorBody(TokenInfoFailedMessage))
        /\ store # {}
        /\ \A r \in store : r.access_token # tok[p].access_token

\* round(100 * matching / total) in exact arithmetic, halves going up as
\* Math.round sends them.
HalfUp(matching, total) == (200 * matching + total) \div (2 * total)

Pct(n) == ToString(n) \o "%"

\* C11: for all counts 0 <= matching <= total a rate probe that ran reports
\* round(matching / total * 100) followed by "%" when total > 0, and its
\* default when total = 0: "0%" for the fill rate and the association rate,
\* "N/A" for the property definition quality.
C11_RateIsRoundedQuotient ==
    \A i \in RateProbes :
        probeOut[i] = "ok" =>
            LET total == crm.contacts.total
                matching == crm.contacts.filled
            IN  IF total > 0
                THEN results[i].value = Pct(HalfUp(matching, total))
                ELSE results[i].value = (IF i = 5 THEN "N/A" ELSE "0%")

DetailsCall(p) == kind[p] = "details" /\ pc[p] = "done"

\* C12: whatever the tokens table holds (no row, a valid token, an expired
\* one), a details request that carries a portal id and whose type is neither
\* 'orphanedContacts' nor 'emptyCompanies' is answered 400, and no CRM search
\* call is made for it.
C12_InvalidTypeAnswered400 ==
    \A p \in Procs :
        (DetailsCall(p) /\ req[p].portalId # "" /\ ~KnownDetailType(req[p].type)) =>
            /\ res[p].status = 400
            /\ obs[p].crmCalls = 0

\* Both calls refreshed, and both had read the same version of the row.
RacingRefreshes(p, q) ==
    /\ p # q
    /\ TokenCall(p) /\ TokenCall(q)
    /\ ~sel[p].error /\ sel[p] = sel[q]
    /\ http[p].outcome = "ok" /\ http[q].outcome = "ok"

\* C13: when two getValidAccessToken calls read the same expired row and the
\* provider accepts both refreshes, both calls return, each the access token
\* of its own refresh, and once both have ended the row holds the access_token
\* and the expires_at of the call whose update was applied last, both from
\* that one call.
C13_ConcurrentRefreshLastWriterWins ==
    \A p, q \in Procs :
        RacingRefreshes(p, q) =>
            /\ out[p] = Returned(http[p].access_token)
            /\ out[q] = Returned(http[q].access_token)
            /\ out[p].value # out[q].value
            /\ obs[p].writes = 1 /\ obs[q].writes = 1
            /\ lastWrite \in {p, q} =>
                  \A r \in RowsWithId(store, RowId) :
                      /\ r.access_token = tok[lastWrite].access_token
                      /\ r.expires_at = tok[lastWrite].expires_at

\* The two refreshes computed different expiries and the first call's update
\* was applied last.
C13_Witness ==
    /\ RacingRefreshes(1, 2)
    /\ tok[1].expires_at # tok[2].expires_at
    /\ http[1].access_token < http[2].access_token
    /\ lastWrite = 1
    /\ \E r \in store : r.access_token = tok[1].access_token

\* C14: in every reachable state the row's access_token was issued for the
\* row's refresh_token, also when a callback and a refresh interleave.
C14_StoredTokensBelongTogether ==
    \A r \in store : <<r.access_token, r.refresh_token>> \in grants

====
